---- MODULE Spec2Model ----
(***************************************************************************)
(* Model of scripts/lyrics.py: the generic tree walker (walk), the lazy    *)
(* collector (iterate_elements), the filter combinators, the per-document  *)
(* pipeline (doc_filter), process_file, and main's TOC merge and           *)
(* serialization.                                                          *)
(*                                                                         *)
(* Python values are encoded uniformly as records [t, s, c]:               *)
(*   t : the Python type ("list", "tuple", "dict", "str", "int", "None",   *)
(*       or "Error" for a raised exception),                               *)
(*   s : a sequence of strings: the pieces of a str (concatenation is \o), *)
(*       the keys of a dict, the digits of an int, the name of an error,   *)
(*   c : a sequence of values: the items of a list or tuple, the values of *)
(*       a dict (parallel to its keys).                                    *)
(***************************************************************************)
EXTENDS Naturals, Sequences, FiniteSets, TLC

VARIABLES
    pc,        \* position of the running program
    root,      \* SpecTree: the tree handed to walk / iterate_elements
    action,    \* SpecTree: the visitor handed to walk
    result,    \* SpecTree: [val, log] of the last walk
    want,      \* SpecTree: how many results the consumer of the collector takes
    gen,       \* the suspended generator of iterate_elements: [stack, log, out, done]
    taken,     \* results the consumer has pulled from gen so far
    filters,   \* the filters of the running mk_filter pipeline
    fi,        \* index of the next filter of the pipeline
    doc_ast,   \* the document handed to the pipeline
    doc,       \* the pipeline's current document
    calls,     \* filter invocations of the running pipeline: [f, doc, meta]
    files,     \* main: the documents pandoc produces for the .md files, in walk order
    docs,      \* main: process_file results, [tags, elems] per file
    tags,      \* main: dict_groupby result, [keys, vals]
    ti,        \* main: position of the tocs generator (categories consumed)
    di,        \* main: position of the bodies generator (docs consumed)
    pending,   \* main: elements of the current chunk not yet drawn from elems
    out        \* main: what has been written to the output stream

vars == <<pc, root, action, result, want, gen, taken, filters, fi, doc_ast, doc,
          calls, files, docs, tags, ti, di, pending, out>>

-----------------------------------------------------------------------------
(* Python values *)

None == [t |-> "None", s |-> <<>>, c |-> <<>>]

PyStr(x) == [t |-> "str", s |-> <<x>>, c |-> <<>>]

PyText(pieces) == [t |-> "str", s |-> pieces, c |-> <<>>]

PyInt(digits) == [t |-> "int", s |-> <<digits>>, c |-> <<>>]

PyList(items) == [t |-> "list", s |-> <<>>, c |-> items]

PyTuple(items) == [t |-> "tuple", s |-> <<>>, c |-> items]

PyDict(keys, values) == [t |-> "dict", s |-> keys, c |-> values]

Raise(name) == [t |-> "Error", s |-> <<name>>, c |-> <<>>]

IsError(v) == v.t = "Error"

HasKey(d, k) == \E i \in 1..Len(d.s) : d.s[i] = k

\* d[k]; a missing key raises KeyError
Get(d, k) ==
    IF HasKey(d, k)
    THEN d.c[CHOOSE i \in 1..Len(d.s) : d.s[i] = k]
    ELSE Raise("KeyError")

-----------------------------------------------------------------------------
(* CLASSES and the node constructors of def_elts *)

CLASSES ==
    PyDict(<<"ladainha", "angola", "benguela", "saobento", "regional">>,
           <<PyStr("Ladainha"), PyStr("Angola"), PyStr("Benguela"),
             PyStr("Sao Bento"), PyStr("Regional")>>)

\* CLASSES.get(cl): the display title, or None
CLASSES_get(cl) ==
    IF Len(cl.s) = 1 /\ HasKey(CLASSES, cl.s[1]) THEN Get(CLASSES, cl.s[1]) ELSE None

\* tag in CLASSES
InCLASSES(tag) == Len(tag.s) = 1 /\ HasKey(CLASSES, tag.s[1])

\* Python's order on the str values that are ever sorted: the display titles
StrRank(x) ==
    CASE x = PyStr("Angola")    -> 1
      [] x = PyStr("Benguela")  -> 2
      [] x = PyStr("Ladainha")  -> 3
      [] x = PyStr("Regional")  -> 4
      [] x = PyStr("Sao Bento") -> 5
      [] OTHER                  -> 6

RECURSIVE InsertSorted(_, _)
InsertSorted(x, xs) ==
    IF xs = <<>> THEN <<x>>
    ELSE IF StrRank(x) < StrRank(Head(xs)) THEN <<x>> \o xs
    ELSE <<Head(xs)>> \o InsertSorted(x, Tail(xs))

\* sorted(xs), stable
RECURSIVE sorted(_)
sorted(xs) ==
    IF xs = <<>> THEN <<>>
    ELSE InsertSorted(xs[Len(xs)], sorted(SubSeq(xs, 1, Len(xs) - 1)))

\* gen = lambda cs: dict(t=elt_type, c=cs)
MkElt(elt_type, cs) == PyDict(<<"t", "c">>, <<PyStr(elt_type), cs>>)

Header(level, attrs, inlines) == MkElt("Header", PyTuple(<<level, attrs, inlines>>))

RawBlock(format, text) == MkElt("RawBlock", PyTuple(<<format, text>>))

RawInline(format, text) == MkElt("RawInline", PyTuple(<<format, text>>))

Str(x) == MkElt("Str", x)

Link(inlines, target) == MkElt("Link", PyTuple(<<inlines, target>>))

\* Para(*xs): xs is the sequence of the positional arguments
Para(xs) == MkElt("Para", PyTuple(xs))

LaTexBlock(x) == RawBlock(PyStr("latex"), x)

TexInline(x) == RawInline(PyStr("tex"), x)

-----------------------------------------------------------------------------
(* Predicates and visitors: key and value are a node's item['t'] and item['c'] *)

is_type(t, key, value) == key = PyStr(t)

\* len(value) == 0
is_empty(key, value) ==
    CASE value.t \in {"list", "tuple"} -> Len(value.c) = 0
      [] value.t = "dict"              -> Len(value.s) = 0
      [] OTHER                         -> \A i \in 1..Len(value.s) : value.s[i] = ""

\* all_pred('Para', is_empty): all() over a generator stops at the first False
all_pred(key, value) == is_type("Para", key, value) /\ is_empty(key, value)

\* remove_if(all_pred('Para', is_empty)).fn
remove_if(key, value) == IF all_pred(key, value) THEN PyList(<<>>) ELSE None

cpy(key, value) == PyDict(<<"t", "c">>, <<key, value>>)

with_latex_env(name, key, value) ==
    PyList(<< LaTexBlock(PyText(<<"\\begin{", name, "}">>)),
              cpy(key, value),
              LaTexBlock(PyText(<<"\\end{", name, "}">>)) >>)

latex_same_page(key, value) == with_latex_env("samepage", key, value)

\* [cl for cl in (CLASSES.get(cl) for cl in value[1][1]) if cl is not None]
RECURSIVE RecognisedTitles(_)
RecognisedTitles(cls) ==
    IF cls = <<>> THEN <<>>
    ELSE (IF CLASSES_get(Head(cls)) = None THEN <<>> ELSE <<CLASSES_get(Head(cls))>>)
         \o RecognisedTitles(Tail(cls))

\* ', '.join(xs), as the pieces of the resulting str
RECURSIVE Join(_)
Join(xs) ==
    IF xs = <<>> THEN <<>>
    ELSE IF Len(xs) = 1 THEN xs[1].s
    ELSE xs[1].s \o <<", ">> \o Join(Tail(xs))

latex_classify(key, value) ==
    LET classes == RecognisedTitles(value.c[2].c[2].c)
    IN  IF classes # <<>>
        THEN Header(value.c[1], value.c[2],
                    PyList(value.c[3].c \o
                           <<TexInline(PyText(<<"\\newline\\tiny\\color{black!55}">>
                                              \o Join(sorted(classes))))>>))
        ELSE None

latex_title_footer(key, value) ==
    LET content == value.c[3]
        footer  == <<TexInline(PyStr("\\rfoot{{\\footnotesize "))>> \o content.c
                   \o <<TexInline(PyStr("}}"))>>
    IN  PyList(<<cpy(key, value), Para(footer)>>)

\* dict(pairs).get(k, default): the last pair with key k wins
DictGet(pairs, k, default) ==
    LET hits == {i \in 1..Len(pairs) : pairs[i].c[1] = PyStr(k)}
    IN  IF hits = {} THEN default
        ELSE pairs[CHOOSE i \in hits : \A j \in hits : j <= i].c[2]

\* page_columns falling back to two columns for every unrecognised value
page_columns_lenient(key, value) ==
    IF key = PyStr("Header")
    THEN LET col == DictGet(value.c[2].c[3].c, "columns", PyStr("2"))
         IN  IF col = PyStr("1") THEN RawBlock(PyStr("latex"), PyStr("\\onecolumn"))
             ELSE RawBlock(PyStr("latex"), PyStr("\\twocolumn"))
    ELSE None

page_columns(key, value) ==
    IF key = PyStr("Header")
    THEN LET col == DictGet(value.c[2].c[3].c, "columns", PyStr("2"))
         IN  CASE col = PyStr("1") -> RawBlock(PyStr("latex"), PyStr("\\onecolumn"))
               [] col = PyStr("2") -> RawBlock(PyStr("latex"), PyStr("\\twocolumn"))
               [] OTHER            -> Raise("KeyError")
    ELSE None

\* splice_before(page_columns).fn
splice_before(key, value) ==
    LET v == page_columns(key, value)
    IN  IF IsError(v) THEN v
        ELSE IF v = None THEN None
        ELSE IF v.t = "list" THEN PyList(v.c \o <<cpy(key, value)>>)
        ELSE PyList(<<v, cpy(key, value)>>)

\* elem(name, f).fn: f only on nodes of kind name
elem_Para(key, value) == IF key = PyStr("Para") THEN latex_same_page(key, value) ELSE None

elem_title_footer(key, value) ==
    IF key = PyStr("Header") THEN latex_title_footer(key, value) ELSE None

elem_classify(key, value) ==
    IF key = PyStr("Header") THEN latex_classify(key, value) ELSE None

\* the visitor that always returns None
identity(key, value) == None

\* action(item['t'], item['c'], format, meta), for the visitors by name
CallAction(a, key, value, format, meta) ==
    CASE a = "identity"     -> identity(key, value)
      [] a = "remove_if"    -> remove_if(key, value)
      [] a = "same_page"    -> elem_Para(key, value)
      [] a = "title_footer" -> elem_title_footer(key, value)
      [] a = "classify"     -> elem_classify(key, value)
      [] a = "page_columns" -> splice_before(key, value)

-----------------------------------------------------------------------------------------------------------------------------------------------------
(* walk. A run of recurse is recorded as [vals, log, err]:                   *)
(*   vals : the values produced (one for recurse(x); what the generator      *)
(*          recurse_list_item(item) yields),                                 *)
(*   log  : the visitor's invocations in order, each with the item and       *)
(*          whether it was reached while recursing inside a replacement,     *)
(*   err  : the exception that ended the run, or None.                       *)

NoRun == [vals |-> <<>>, log |-> <<>>, err |-> None]

\* run h, and then run r unless h raised
ThenRun(h, r) ==
    IF IsError(h.err) THEN h
    ELSE [vals |-> h.vals \o r.vals, log |-> h.log \o r.log, err |-> r.err]

\* list(...) of what the run r yielded
AsList(r) == [r EXCEPT !.vals = IF IsError(r.err) THEN <<>> ELSE <<PyList(r.vals)>>]

\* dict((k, recurse(v)) for k, v in x.items()) of the run r over the values
AsDict(x, r) == [r EXCEPT !.vals = IF IsError(r.err) THEN <<>> ELSE <<PyDict(x.s, r.vals)>>]

\* isinstance(item, dict) and 't' in item
IsNode(item) == item.t = "dict" /\ HasKey(item, "t")

\* result = action(item['t'], item['c'], format, meta)
ActionResult(a, item, format, meta) ==
    IF HasKey(item, "c")
    THEN CallAction(a, Get(item, "t"), Get(item, "c"), format, meta)
    ELSE Raise("KeyError")

\* Targets with "yield recurse(item)" missing for a None result
Targets_drop(item, res) ==
    IF IsError(res) \/ res = None THEN <<>>
    ELSE IF res.t = "list" THEN res.c
    ELSE <<res>>

\* what recurse_list_item recurses on, given the visitor's result
Targets(item, res) ==
    IF IsError(res) THEN <<>>
    ELSE IF res = None THEN <<item>>
    ELSE IF res.t = "list" THEN res.c
    ELSE <<res>>

\* the visitor was invoked on item, then r ran
Visited(item, inRepl, res, r) ==
    [vals |-> r.vals,
     log  |-> <<[item |-> item, repl |-> inRepl]>> \o r.log,
     err  |-> IF IsError(res) THEN res ELSE r.err]

RECURSIVE recurse(_, _, _, _, _)
RECURSIVE recurse_each(_, _, _, _, _)
RECURSIVE recurse_items(_, _, _, _, _)
RECURSIVE recurse_list_item(_, _, _, _, _)

\* recurse(x) of walk
recurse(x, a, format, meta, inRepl) ==
    IF x.t = "list" THEN AsList(recurse_items(x.c, a, format, meta, inRepl))
    ELSE IF x.t = "dict" THEN AsDict(x, recurse_each(x.c, a, format, meta, inRepl))
    ELSE [vals |-> <<x>>, log |-> <<>>, err |-> None]

\* recurse(x) for each x of xs, in order
recurse_each(xs, a, format, meta, inRepl) ==
    IF xs = <<>> THEN NoRun
    ELSE ThenRun(recurse(Head(xs), a, format, meta, inRepl),
                 recurse_each(Tail(xs), a, format, meta, inRepl))

\* elt for item in x for elt in recurse_list_item(item)
recurse_items(items, a, format, meta, inRepl) ==
    IF items = <<>> THEN NoRun
    ELSE ThenRun(recurse_list_item(Head(items), a, format, meta, inRepl),
                 recurse_items(Tail(items), a, format, meta, inRepl))

\* recurse_result yielding the replacements as they are, without recursing into them
recurse_result_flat(item, res, a, format, meta, inRepl) ==
    IF res = None
    THEN Visited(item, inRepl, res, recurse_each(<<item>>, a, format, meta, inRepl))
    ELSE Visited(item, inRepl, res, [vals |-> Targets(item, res), log |-> <<>>, err |-> None])

\* recurse_list_item(item) once the visitor has returned res: yield recurse(item) for
\* None, yield recurse(x) for x in res for a list, yield recurse(res) otherwise
recurse_result(item, res, a, format, meta, inRepl) ==
    Visited(item, inRepl, res,
            recurse_each(Targets(item, res), a, format, meta, inRepl \/ res # None))

\* recurse_list_item(item)
recurse_list_item(item, a, format, meta, inRepl) ==
    IF IsNode(item)
    THEN recurse_result(item, ActionResult(a, item, format, meta), a, format, meta, inRepl)
    ELSE recurse(item, a, format, meta, inRepl)

\* val: the tree walk returns, or the exception it raises
RunValue(r) == [val |-> IF IsError(r.err) THEN r.err ELSE r.vals[1], log |-> r.log]

walk_run(x, a, format, meta) == RunValue(recurse(x, a, format, meta, FALSE))

walk(x, a, format, meta) == walk_run(x, a, format, meta).val


-----------------------------------------------------------------------------
(* iterate_elements: the generator it returns, as its suspended state       *)
(*   stack : frames [x, i] of the nested recurse(x) loops, i the next index *)
(*   log   : the items the callback has been invoked on, in order           *)
(*   out   : the value of the last next(): the result yielded               *)
(*   done  : next() has raised StopIteration                                *)

\* lambda k, v, *rest: v if Header.check(k) else None   (collect_headers)
callback(key, value) == IF key = PyStr("Header") THEN value ELSE None

\* recurse(x): a loop over x when x is a list or a dict, nothing otherwise
Frames(x) == IF x.t \in {"list", "dict"} THEN <<[x |-> x, i |-> 1]>> ELSE <<>>

iterate_elements(x) == [stack |-> Frames(x), log |-> <<>>, out |-> None, done |-> FALSE]

\* advance looking one item ahead: after a result it also offers the next item of the
\* same list to the callback before it suspends
RECURSIVE advance_peek(_)
advance_peek(g) ==
    IF g.stack = <<>> THEN [g EXCEPT !.out = None, !.done = TRUE]
    ELSE LET n    == Len(g.stack)
             top  == g.stack[n]
             rest == SubSeq(g.stack, 1, n - 1)
         IN  IF top.i > Len(top.x.c) THEN advance_peek([g EXCEPT !.stack = rest])
             ELSE LET item == top.x.c[top.i]
                      next == rest \o <<[top EXCEPT !.i = top.i + 1]>>
                      peek == IF top.i < Len(top.x.c) /\ IsNode(top.x.c[top.i + 1])
                              THEN <<top.x.c[top.i + 1]>> ELSE <<>>
                  IN  IF top.x.t = "list" /\ IsNode(item)
                      THEN LET r == callback(Get(item, "t"), Get(item, "c"))
                           IN  IF r # None
                               THEN [stack |-> next, log |-> Append(g.log, item) \o peek,
                                     out |-> r, done |-> FALSE]
                               ELSE advance_peek([g EXCEPT !.stack = next,
                                                           !.log = Append(g.log, item)])
                      ELSE advance_peek([g EXCEPT !.stack = next \o Frames(item)])

\* next(g): run the generator up to its next yield or to its end
RECURSIVE advance(_)
advance(g) ==
    IF g.stack = <<>> THEN [g EXCEPT !.out = None, !.done = TRUE]
    ELSE LET n    == Len(g.stack)
             top  == g.stack[n]
             rest == SubSeq(g.stack, 1, n - 1)
         IN  IF top.i > Len(top.x.c) THEN advance([g EXCEPT !.stack = rest])
             ELSE LET item == top.x.c[top.i]
                      next == rest \o <<[top EXCEPT !.i = top.i + 1]>>
                  IN  IF top.x.t = "list" /\ IsNode(item)
                      THEN LET r == callback(Get(item, "t"), Get(item, "c"))
                           IN  IF r # None
                               THEN [stack |-> next, log |-> Append(g.log, item),
                                     out |-> r, done |-> FALSE]
                               ELSE advance([g EXCEPT !.stack = next,
                                                      !.log = Append(g.log, item)])
                      ELSE advance([g EXCEPT !.stack = next \o Frames(item)])

\* every result of the generator g, in order
RECURSIVE Drain(_)
Drain(g) ==
    LET n == advance(g)
    IN  IF n.done THEN <<>> ELSE <<n.out>> \o Drain(n)

\* collect_headers(doc), consumed to its end
collect_headers(d) == Drain(iterate_elements(d.c[2]))

-----------------------------------------------------------------------------
(* Input documents: pandoc's JSON, decoded (lists and dicts only)           *)

MaxLen == 2     \* longest list of top-level items of an input tree

MaxTake == 2    \* most results a consumer of the collector asks for

JHeader(id, classes, keyvals, inlines) ==
    MkElt("Header", PyList(<<PyInt("1"),
                             PyList(<<PyStr(id), PyList(classes), PyList(keyvals)>>),
                             PyList(inlines)>>))

JPara(inlines) == MkElt("Para", PyList(inlines))

JBlockQuote(blocks) == MkElt("BlockQuote", PyList(blocks))

KeyVal(k, v) == PyList(<<PyStr(k), PyStr(v)>>)

HPlain  == JHeader("plain", <<>>, <<>>, <<Str(PyStr("Plain"))>>)

HAngola == JHeader("ang", <<PyStr("angola")>>, <<KeyVal("columns", "1")>>,
                   <<Str(PyStr("Ang"))>>)

HMixed  == JHeader("mix", <<PyStr("saobento"), PyStr("foo"), PyStr("angola")>>,
                   <<KeyVal("columns", "2")>>,
                   <<Str(PyStr("Mix")), MkElt("Emph", PyList(<<Str(PyStr("ed"))>>))>>)

HHidden == JHeader("hid", <<PyStr("hidden"), PyStr("benguela")>>, <<>>,
                   <<Str(PyStr("Hid"))>>)

HBadCol == JHeader("bad", <<PyStr("regional")>>, <<KeyVal("columns", "3")>>,
                   <<Str(PyStr("Bad"))>>)

PEmpty == JPara(<<>>)

PText  == JPara(<<Str(PyStr("verse"))>>)

\* the blocks of a lyric sheet
Blocks == {HPlain, HAngola, HMixed, HHidden, HBadCol, PEmpty, PText}

\* blocks nested inside another tagged node
Quotes == {JBlockQuote(<<HAngola, PText>>), JBlockQuote(<<HHidden>>),
           JBlockQuote(<<PEmpty, HBadCol>>)}

\* what else a decoded tree holds: scalars, plain lists, mappings without 't'
Plain == {PyStr("x"), PyList(<<PText, HPlain>>),
          PyDict(<<"citationId", "citationPrefix", "citationMode">>,
                 <<PyStr("k"), PyList(<<Str(PyStr("see")), PEmpty>>),
                   MkElt("NormalCitation", PyList(<<>>))>>)}

TreeItems == Blocks \cup Quotes \cup Plain

SeqsUpTo(S, n) == UNION {[1..k -> S] : k \in 0..n}

Roots == {PyList(items) : items \in SeqsUpTo(TreeItems, MaxLen)}

Visitors == {"identity", "remove_if", "same_page", "title_footer", "classify", "page_columns"}

NoGen == [stack |-> <<>>, log |-> <<>>, out |-> None, done |-> TRUE]

NoResult == [val |-> None, log |-> <<>>]

-----------------------------------------------------------------------------
(* SpecTree: walk and iterate_elements applied to an input tree              *)

InitTree ==
    /\ root \in Roots
    /\ pc = "start"
    /\ action = "" /\ result = NoResult /\ want = 0 /\ gen = NoGen /\ taken = <<>>
    /\ filters = <<>> /\ fi = 0 /\ doc_ast = None /\ doc = None /\ calls = <<>>
    /\ files = <<>> /\ docs = <<>> /\ tags = None /\ ti = 0 /\ di = 0
    /\ pending = <<>> /\ out = <<>>

\* walk(root, a, format, meta)
DoWalk(a) ==
    /\ pc = "start"
    /\ action' = a
    /\ result' = walk_run(root, a, PyStr(""), PyDict(<<>>, <<>>))
    /\ pc' = "walked"
    /\ UNCHANGED <<root, want, gen, taken, filters, fi, doc_ast, doc, calls, files,
                   docs, tags, ti, di, pending, out>>

\* g = iterate_elements(root, callback, format, meta); the consumer will take k results
StartCollect(k) ==
    /\ pc = "start"
    /\ gen' = iterate_elements(root)
    /\ want' = k
    /\ taken' = <<>>
    /\ pc' = "collecting"
    /\ UNCHANGED <<root, action, result, filters, fi, doc_ast, doc, calls, files,
                   docs, tags, ti, di, pending, out>>

\* the consumer's next(g)
TakeNext ==
    /\ pc = "collecting"
    /\ Len(taken) < want
    /\ ~gen.done
    /\ gen' = advance(gen)
    /\ taken' = IF gen'.done THEN taken ELSE Append(taken, gen'.out)
    /\ UNCHANGED <<pc, root, action, result, want, filters, fi, doc_ast, doc, calls,
                   files, docs, tags, ti, di, pending, out>>

\* the consumer stops: it has its k results, or the generator is exhausted
StopCollect ==
    /\ pc = "collecting"
    /\ ~(Len(taken) < want /\ ~gen.done)
    /\ pc' = "stopped"
    /\ UNCHANGED <<root, action, result, want, gen, taken, filters, fi, doc_ast, doc,
                   calls, files, docs, tags, ti, di, pending, out>>

\* mk_filter(filter_hidden)([{"unMeta": {}}, root]): the consumer is filter_hidden
StartHidden ==
    /\ pc = "start"
    /\ filters' = <<"filter_hidden">>
    /\ doc_ast' = PyList(<<PyDict(<<"unMeta">>, <<PyDict(<<>>, <<>>)>>), root>>)
    /\ doc' = doc_ast'
    /\ fi' = 1
    /\ calls' = <<>>
    /\ pc' = "go"
    /\ UNCHANGED <<root, action, result, want, gen, taken, files, docs, tags, ti, di,
                   pending, out>>


-----------------------------------------------------------------------------
(* Filters and the pipeline of mk_filter                                    *)

MaxPipe == 3    \* longest pipeline handed to mk_filter besides doc_filter

\* ElementFilter(fn).__call__(doc, format, meta)
ElementFilter(fn, d, format, meta) ==
    LET w == walk(d.c[2], fn, format, meta)
    IN  IF IsError(w) THEN w ELSE PyList(<<d.c[1], w>>)

\* 'hidden' in header[1][1], header a result of collect_headers (a Header's content)
IsHiddenHeader(header) ==
    \E i \in 1..Len(header.c[2].c[2].c) : header.c[2].c[2].c[i] = PyStr("hidden")

\* MetaOf handing over doc[0] itself
MetaOf_whole(d) == d.c[1]

\* doc[0]['unMeta']
MetaOf(d) == Get(d.c[1], "unMeta")

FilterNames == {"filter_hidden", "remove_if", "same_page", "title_footer", "classify",
                "page_columns"}

\* doc_filter with the badge added before the footer is made
doc_filter_badge_first ==
    <<"filter_hidden", "remove_if", "same_page", "classify", "title_footer", "page_columns">>

\* doc_filter = mk_filter(filter_hidden, remove_if(...), elem('Para', ...), ...)
doc_filter == <<"filter_hidden", "remove_if", "same_page", "title_footer", "classify",
                "page_columns">>

Document(meta, body) == PyList(<<PyDict(<<"unMeta">>, <<meta>>), PyList(body)>>)

Metas == {PyDict(<<>>, <<>>),
          PyDict(<<"title">>, <<MkElt("MetaInlines", PyList(<<Str(PyStr("Songs"))>>))>>)}

BodyItems == Blocks \cup {JBlockQuote(<<HAngola, PText>>), JBlockQuote(<<HHidden>>)}

Documents == {Document(m, b) : m \in Metas, b \in SeqsUpTo(BodyItems, MaxLen)}

\* documents for the pipelines other than doc_filter
PipeDocuments ==
    {Document(m, b) : m \in Metas,
                      b \in {<<HMixed, PText>>, <<PText, HHidden>>,
                             <<JBlockQuote(<<HHidden>>)>>, <<HBadCol>>}}

Pipelines == SeqsUpTo(FilterNames, MaxPipe)

\* go(doc): the loop reaches filters[fi] and calls it
CallFilter ==
    /\ pc = "go"
    /\ fi <= Len(filters)
    /\ calls' = Append(calls, [f |-> filters[fi], doc |-> doc, meta |-> MetaOf(doc)])
    /\ IF filters[fi] = "filter_hidden"
       THEN /\ gen' = iterate_elements(doc.c[2])
            /\ pc' = "filter_hidden"
            /\ UNCHANGED <<doc, fi>>
       ELSE LET r == ElementFilter(filters[fi], doc, PyStr(""), MetaOf(doc))
            IN  /\ doc' = r
                /\ pc' = IF IsError(r) THEN r.s[1] ELSE "go"
                /\ fi' = IF IsError(r) THEN fi ELSE fi + 1
                /\ UNCHANGED gen
    /\ UNCHANGED <<root, action, result, want, taken, filters, doc_ast, files, docs,
                   tags, ti, di, pending, out>>

\* filter_hidden: one round of "for header in collect_headers(doc, format, meta)"
HiddenNext ==
    /\ pc = "filter_hidden"
    /\ gen' = advance(gen)
    /\ IF gen'.done
       THEN /\ pc' = "go"               \* return doc
            /\ fi' = fi + 1
            /\ doc' = doc
       ELSE IF IsHiddenHeader(gen'.out)
       THEN /\ pc' = "returned"         \* return None; go breaks and returns None
            /\ fi' = fi
            /\ doc' = None
       ELSE /\ pc' = "filter_hidden"
            /\ fi' = fi
            /\ doc' = doc
    /\ UNCHANGED <<root, action, result, want, taken, filters, doc_ast, calls, files,
                   docs, tags, ti, di, pending, out>>

\* go(doc): the loop is over, return doc
GoReturn ==
    /\ pc = "go"
    /\ fi > Len(filters)
    /\ pc' = "returned"
    /\ UNCHANGED <<root, action, result, want, gen, taken, filters, fi, doc_ast, doc,
                   calls, files, docs, tags, ti, di, pending, out>>

NextTree ==
    \/ \E a \in Visitors : DoWalk(a)
    \/ \E k \in 0..MaxTake : StartCollect(k)
    \/ TakeNext
    \/ StopCollect
    \/ StartHidden
    \/ CallFilter
    \/ HiddenNext
    \/ GoReturn

SpecTree == InitTree /\ [][NextTree]_vars

InitFilter ==
    /\ filters \in Pipelines \cup {doc_filter}
    /\ doc_ast \in IF filters = doc_filter THEN Documents ELSE PipeDocuments
    /\ doc = doc_ast
    /\ fi = 1
    /\ calls = <<>>
    /\ pc = "go"
    /\ root = None /\ action = "" /\ result = NoResult /\ want = 0 /\ gen = NoGen
    /\ taken = <<>> /\ files = <<>> /\ docs = <<>> /\ tags = None /\ ti = 0 /\ di = 0
    /\ pending = <<>> /\ out = <<>>

NextFilter ==
    \/ CallFilter
    \/ HiddenNext
    \/ GoReturn

SpecFilter == InitFilter /\ [][NextFilter]_vars


-----------------------------------------------------------------------------
(* process_file and main                                                    *)

MaxFiles == 3   \* most .md files under the source path

\* the (tag, link, title) of one header, for tag in tags if tag in CLASSES
RECURSIVE HeaderTags(_, _, _)
HeaderTags(cls, link, title) ==
    IF cls = <<>> THEN <<>>
    ELSE (IF InCLASSES(Head(cls)) THEN <<PyTuple(<<Head(cls), link, title>>)>> ELSE <<>>)
         \o HeaderTags(Tail(cls), link, title)

\* tags of process_file, over hdr_info = (hdr[1][0], hdr[1][1], hdr[2]) of each header
RECURSIVE TagsOf(_)
TagsOf(hdrs) ==
    IF hdrs = <<>> THEN <<>>
    ELSE HeaderTags(Head(hdrs).c[2].c[2].c, Head(hdrs).c[2].c[1], Head(hdrs).c[3])
         \o TagsOf(Tail(hdrs))

\* what process_file returns once doc_filter has returned d for doc_ast ast
process_file(ast, d) ==
    IF d # None
    THEN [tags |-> TagsOf(collect_headers(ast)), elems |-> d.c[2].c]
    ELSE [tags |-> <<>>, elems |-> <<>>]

\* iflatten(tags for tags, _ in docs)
RECURSIVE AllTags(_)
AllTags(ds) == IF ds = <<>> THEN <<>> ELSE Head(ds).tags \o AllTags(Tail(ds))

\* dict_groupby(data, lambda x: x[0], lambda x: (x[1], x[2]))
RECURSIVE dict_groupby(_)
dict_groupby(data) ==
    IF data = <<>> THEN PyDict(<<>>, <<>>)
    ELSE LET d    == dict_groupby(SubSeq(data, 1, Len(data) - 1))
             e    == data[Len(data)]
             key  == e.c[1].s[1]
             item == PyTuple(<<e.c[2], e.c[3]>>)
         IN  IF HasKey(d, key)
             THEN LET i == CHOOSE j \in 1..Len(d.s) : d.s[j] = key
                  IN  [d EXCEPT !.c[i] = PyList(d.c[i].c \o <<item>>)]
             ELSE PyDict(Append(d.s, key), Append(d.c, PyList(<<item>>)))

\* gen_entry(link, title) for each t of tags
RECURSIVE gen_entries(_)
gen_entries(ts) ==
    IF ts = <<>> THEN <<>>
    ELSE <<Para(<<Link(Head(ts).c[2],
                       PyList(<<PyText(<<"#">> \o Head(ts).c[1].s), PyStr("")>>))>>)>>
         \o gen_entries(Tail(ts))

gen_toc(title, ts) ==
    <<LaTexBlock(PyStr("\\twocolumn")),
      Header(PyInt("1"), PyList(<<title, PyList(<<>>), PyList(<<>>)>>), PyList(<<Str(title)>>))>>
    \o gen_entries(ts.c)
    \o <<LaTexBlock(PyStr("\\newpage"))>>

\* sorted(CLASSES.values())
SortedTitles == sorted(CLASSES.c)

\* the k of "for k, v in CLASSES.items() if v == cl"
KeyOfTitle(cl) == CLASSES.s[CHOOSE i \in 1..Len(CLASSES.s) : CLASSES.c[i] = cl]

\* next(elems), elems = chain(iflatten(tocs), iflatten(elems for _, elems in docs)):
\* e is the position [ti, di, pending] of the generators; the result is the position
\* after, with the element drawn in elem, or the exception raised in err
RECURSIVE next_elem(_, _, _)
next_elem(e, tagdict, ds) ==
    IF e.pending # <<>>
    THEN [ti |-> e.ti, di |-> e.di, pending |-> Tail(e.pending),
          elem |-> Head(e.pending), err |-> None]
    ELSE IF e.ti < Len(SortedTitles)
    THEN LET cl == SortedTitles[e.ti + 1]
             ts == Get(tagdict, KeyOfTitle(cl))
         IN  IF IsError(ts)
             THEN [ti |-> e.ti + 1, di |-> e.di, pending |-> <<>>, elem |-> None, err |-> ts]
             ELSE next_elem([ti |-> e.ti + 1, di |-> e.di, pending |-> gen_toc(cl, ts)],
                            tagdict, ds)
    ELSE IF e.di < Len(ds)
    THEN next_elem([ti |-> e.ti, di |-> e.di + 1, pending |-> ds[e.di + 1].elems],
                   tagdict, ds)
    ELSE [ti |-> e.ti, di |-> e.di, pending |-> <<>>, elem |-> None,
          err |-> Raise("StopIteration")]

Lit(text) == [lit |-> text, node |-> None]

Json(node) == [lit |-> "", node |-> node]

HAll == JHeader("all", <<PyStr("regional"), PyStr("ladainha"), PyStr("benguela")>>, <<>>,
                <<Str(PyStr("All"))>>)

\* the documents pandoc produces for the files of a songbook
SongDocs ==
    {Document(PyDict(<<>>, <<>>), b) :
        b \in {<<>>, <<HMixed, PText>>, <<HAll, PEmpty, HAngola>>, <<HHidden, PText>>,
               <<HPlain, JBlockQuote(<<HHidden>>)>>, <<HBadCol>>}}

Init ==
    /\ files \in SeqsUpTo(SongDocs, MaxFiles)
    /\ docs = <<>>
    /\ pc = "main"
    /\ doc_ast = None /\ doc = None /\ filters = doc_filter /\ fi = 0 /\ calls = <<>>
    /\ gen = NoGen /\ tags = None /\ ti = 0 /\ di = 0 /\ pending = <<>> /\ out = <<>>
    /\ root = None /\ action = "" /\ result = NoResult /\ want = 0 /\ taken = <<>>

\* process_file(path): pandoc's output is decoded and handed to doc_filter
ReadFile ==
    /\ pc = "main"
    /\ Len(docs) < Len(files)
    /\ doc_ast' = files[Len(docs) + 1]
    /\ doc' = files[Len(docs) + 1]
    /\ fi' = 1
    /\ calls' = <<>>
    /\ pc' = "go"
    /\ UNCHANGED <<root, action, result, want, gen, taken, filters, files, docs, tags,
                   ti, di, pending, out>>

\* process_file returns; its result is appended to docs
FinishFile ==
    /\ pc = "returned"
    /\ Len(docs) < Len(files)
    /\ docs' = Append(docs, process_file(doc_ast, doc))
    /\ pc' = "main"
    /\ UNCHANGED <<root, action, result, want, gen, taken, filters, fi, doc_ast, doc,
                   calls, files, tags, ti, di, pending, out>>

\* tags = dict_groupby(...); tocs and elems are created; out.write('[{"unMeta": {}},[\n')
WriteOpen ==
    /\ pc = "main"
    /\ Len(docs) = Len(files)
    /\ tags' = dict_groupby(AllTags(docs))
    /\ ti' = 0 /\ di' = 0 /\ pending' = <<>>
    /\ out' = <<Lit("[{\"unMeta\": {}},[\n")>>
    /\ pc' = "first"
    /\ UNCHANGED <<root, action, result, want, gen, taken, filters, fi, doc_ast, doc,
                   calls, files, docs>>

\* json.dump(elems.next(), out, indent=True)
WriteFirst ==
    /\ pc = "first"
    /\ LET n == next_elem([ti |-> ti, di |-> di, pending |-> pending], tags, docs)
       IN  /\ ti' = n.ti /\ di' = n.di /\ pending' = n.pending
           /\ out' = IF IsError(n.err) THEN out ELSE Append(out, Json(n.elem))
           /\ pc' = IF IsError(n.err) THEN n.err.s[1] ELSE "loop"
    /\ UNCHANGED <<root, action, result, want, gen, taken, filters, fi, doc_ast, doc,
                   calls, files, docs, tags>>

\* for elem in elems: out.write(',\n'); json.dump(elem, out, indent=True)
WriteNext ==
    /\ pc = "loop"
    /\ LET n == next_elem([ti |-> ti, di |-> di, pending |-> pending], tags, docs)
       IN  /\ ti' = n.ti /\ di' = n.di /\ pending' = n.pending
           /\ out' = IF IsError(n.err) THEN out
                     ELSE out \o <<Lit(",\n"), Json(n.elem)>>
           /\ pc' = IF ~IsError(n.err) THEN "loop"
                    ELSE IF n.err = Raise("StopIteration") THEN "close"
                    ELSE n.err.s[1]
    /\ UNCHANGED <<root, action, result, want, gen, taken, filters, fi, doc_ast, doc,
                   calls, files, docs, tags>>

\* out.write('\n]]'); out.close()
WriteClose ==
    /\ pc = "close"
    /\ out' = Append(out, Lit("\n]]"))
    /\ pc' = "done"
    /\ UNCHANGED <<root, action, result, want, gen, taken, filters, fi, doc_ast, doc,
                   calls, files, docs, tags, ti, di, pending>>

Next ==
    \/ ReadFile
    \/ CallFilter
    \/ HiddenNext
    \/ GoReturn
    \/ FinishFile
    \/ WriteOpen
    \/ WriteFirst
    \/ WriteNext
    \/ WriteClose

Spec == Init /\ [][Next]_vars


-----------------------------------------------------------------------------
(* Properties of walk and iterate_elements (SpecTree)                       *)

IsPrefix(xs, ys) == Len(xs) <= Len(ys) /\ xs = SubSeq(ys, 1, Len(xs))

IsKind(v, kind) == IsNode(v) /\ Get(v, "t") = PyStr(kind)

\* every tagged node occurring anywhere in v, in document order
RECURSIVE NodesOf(_)
RECURSIVE NodesOfEach(_)
NodesOf(v) == (IF IsNode(v) THEN <<v>> ELSE <<>>) \o NodesOfEach(v.c)

NodesOfEach(vs) == IF vs = <<>> THEN <<>> ELSE NodesOf(Head(vs)) \o NodesOfEach(Tail(vs))

\* the tagged nodes of v that are members of a list, at any depth, in document order
RECURSIVE MemberNodes(_)
RECURSIVE MemberNodesOf(_, _)
MemberNodes(v) ==
    IF v.t = "list" THEN MemberNodesOf(v.c, TRUE)
    ELSE IF v.t = "dict" THEN MemberNodesOf(v.c, FALSE)
    ELSE <<>>

MemberNodesOf(vs, inList) ==
    IF vs = <<>> THEN <<>>
    ELSE (IF inList /\ IsNode(Head(vs)) THEN <<Head(vs)>> ELSE <<>>)
         \o MemberNodes(Head(vs)) \o MemberNodesOf(Tail(vs), inList)

\* the tagged nodes of v that are members of a list and not inside another tagged node
RECURSIVE OuterNodes(_)
RECURSIVE OuterNodesOf(_, _)
OuterNodes(v) ==
    IF v.t = "list" THEN OuterNodesOf(v.c, TRUE)
    ELSE IF v.t = "dict" THEN OuterNodesOf(v.c, FALSE)
    ELSE <<>>

OuterNodesOf(vs, inList) ==
    IF vs = <<>> THEN <<>>
    ELSE (IF inList /\ IsNode(Head(vs)) THEN <<Head(vs)>> ELSE OuterNodes(Head(vs)))
         \o OuterNodesOf(Tail(vs), inList)

IsHeaderNode(v) == IsKind(v, "Header")

HeadersIn(nodes) == SelectSeq(nodes, IsHeaderNode)

ContentsOf(nodes) == [i \in 1..Len(nodes) |-> Get(nodes[i], "c")]

LogItems(log) == [i \in 1..Len(log) |-> log[i].item]

\* C3: walk with the visitor that always returns None returns a tree equal to its input
C3_IdentityWalk == (pc = "walked" /\ action = "identity") => result.val = root

C3_Witness ==
    /\ pc = "walked" /\ action = "identity"
    /\ Len(root.c) = 2
    /\ root.c[1].t = "dict" /\ ~IsNode(root.c[1])
    /\ IsKind(root.c[2], "BlockQuote")
    /\ result.val = root

\* a node the filters construct: its content is a tuple, never a decoded list
IsInserted(v) == IsNode(v) /\ Get(v, "c").t = "tuple"

\* v without the nodes the filters inserted
RECURSIVE Erase(_)
RECURSIVE EraseEach(_, _)
Erase(v) ==
    IF v.t = "list" THEN PyList(EraseEach(v.c, TRUE))
    ELSE IF v.t = "dict" THEN PyDict(v.s, EraseEach(v.c, FALSE))
    ELSE v

EraseEach(vs, inList) ==
    IF vs = <<>> THEN <<>>
    ELSE (IF inList /\ IsInserted(Head(vs)) THEN <<>> ELSE <<Erase(Head(vs))>>)
         \o EraseEach(Tail(vs), inList)

ReEmitting == {"same_page", "title_footer", "page_columns"}

\* C9 as stated: the visitor is never invoked on a node nested inside a replacement
C9_NoVisitInsideReplacement ==
    pc = "walked" => \A i \in 1..Len(result.log) : ~result.log[i].repl

\* C9 as amended: with a visitor that re-emits a copy of the matched node, walk ends,
\* the visitor has been invoked on every list member node of the input exactly once, in
\* document order (those nested inside a re-emitted copy included) and on no node it
\* returned itself, and the output without the inserted nodes is the input
C9_VisitsInputOnce ==
    (pc = "walked" /\ action \in ReEmitting /\ ~IsError(result.val))
        => /\ LogItems(result.log) = MemberNodes(root)
           /\ Erase(result.val) = root

C9_Witness ==
    /\ pc = "walked" /\ action = "same_page"
    /\ Len(root.c) = 2
    /\ \E i \in 1..Len(result.log) : result.log[i].repl
    /\ \E i \in 1..Len(result.log) : ~result.log[i].repl /\ IsKind(result.log[i].item, "Para")

\* the value of h's 'columns' key-value attribute, None when it has none
ColumnsOf(h) ==
    LET kvs == Get(h, "c").c[2].c[3].c
    IN  IF \E i \in 1..Len(kvs) : kvs[i].c[1] = PyStr("columns")
        THEN kvs[CHOOSE i \in 1..Len(kvs) : kvs[i].c[1] = PyStr("columns")].c[2]
        ELSE None

ColumnBlock(h) ==
    IF ColumnsOf(h) = PyStr("1")
    THEN MkElt("RawBlock", PyTuple(<<PyStr("latex"), PyStr("\\onecolumn")>>))
    ELSE MkElt("RawBlock", PyTuple(<<PyStr("latex"), PyStr("\\twocolumn")>>))

\* v with a column block before every Header, everything else as it is
RECURSIVE WithColumns(_)
RECURSIVE WithColumnsEach(_, _)
WithColumns(v) ==
    IF v.t = "list" THEN PyList(WithColumnsEach(v.c, TRUE))
    ELSE IF v.t = "dict" THEN PyDict(v.s, WithColumnsEach(v.c, FALSE))
    ELSE v

WithColumnsEach(vs, inList) ==
    IF vs = <<>> THEN <<>>
    ELSE (IF inList /\ IsHeaderNode(Head(vs))
          THEN <<ColumnBlock(Head(vs)), Head(vs)>>
          ELSE <<WithColumns(Head(vs))>>)
         \o WithColumnsEach(Tail(vs), inList)

BadColumns(h) == ColumnsOf(h) \notin {None, PyStr("1"), PyStr("2")}

\* C7: splice_before(page_columns) puts the one-column block before a Header whose
\* columns attribute is "1" and the two-column block before one whose attribute is "2"
\* or absent, leaves the Header and every other node as they are, and raises (instead
\* of returning a tree) when some Header has any other columns value
C7_PageColumns ==
    (pc = "walked" /\ action = "page_columns")
        => IF \E i \in 1..Len(MemberNodes(root)) :
                 IsHeaderNode(MemberNodes(root)[i]) /\ BadColumns(MemberNodes(root)[i])
           THEN result.val = Raise("KeyError")
           ELSE result.val = WithColumns(root)

C7_Witness ==
    /\ pc = "walked" /\ action = "page_columns"
    /\ root = PyList(<<HAngola, JBlockQuote(<<HAngola, PText>>)>>)
    /\ result.val.c[1] = ColumnBlock(HAngola)
    /\ result.val.c[2] = HAngola

\* C4 as stated: run to its end, the collector yields the content of every Header node
\* of the tree, in document order, and its visitor is offered every node the visitor
\* of an identity walk is offered
C4_OneResultPerHeader ==
    (pc = "stopped" /\ gen.done)
        => /\ taken = ContentsOf(HeadersIn(NodesOf(root)))
           /\ gen.log = LogItems(walk_run(root, "identity", PyStr(""), PyDict(<<>>, <<>>)).log)

IsHiddenNode(v) ==
    /\ IsHeaderNode(v)
    /\ \E i \in 1..Len(Get(v, "c").c[2].c[2].c) : Get(v, "c").c[2].c[2].c[i] = PyStr("hidden")

\* C5: the callback has been invoked on a prefix of the nodes the collector offers;
\* between two next() calls the last node it was invoked on is the one whose result was
\* yielded last, so a consumer that stops after k results has caused no invocation
\* beyond the k-th match; filter_hidden returns None right at the first hidden Header
C5_Lazy ==
    /\ pc \in {"collecting", "stopped"}
        => /\ IsPrefix(gen.log, OuterNodes(root))
           /\ Len(HeadersIn(gen.log)) = Len(taken)
           /\ (~gen.done /\ gen.log # <<>>) => IsHeaderNode(gen.log[Len(gen.log)])
           /\ gen.done => gen.log = OuterNodes(root)
    /\ pc \in {"filter_hidden", "go", "returned"}
        => /\ IsPrefix(gen.log, OuterNodes(doc_ast.c[2]))
           /\ \A i \in 1..(Len(gen.log) - 1) : ~IsHiddenNode(gen.log[i])
           /\ (pc = "returned" /\ doc = None)
                 => (gen.log # <<>> /\ IsHiddenNode(gen.log[Len(gen.log)]))

C5_Witness ==
    /\ pc = "stopped"
    /\ want >= 1 /\ Len(taken) = want
    /\ ~gen.done
    /\ Len(gen.log) < Len(OuterNodes(root))
    /\ IsHeaderNode(root.c[2])


-----------------------------------------------------------------------------
(* Properties of the pipeline (SpecFilter)                                  *)

\* what the filter named f returns for the document d
FilterValue(f, d) ==
    IF f = "filter_hidden"
    THEN IF \E i \in 1..Len(OuterNodes(d.c[2])) : IsHiddenNode(OuterNodes(d.c[2])[i])
         THEN None ELSE d
    ELSE ElementFilter(f, d, PyStr(""), d.c[1].c[1])

\* fn(...f1(d)...), None from the first filter that returns None on
RECURSIVE Compose(_, _)
Compose(fs, d) ==
    IF fs = <<>> \/ d = None \/ IsError(d) THEN d
    ELSE Compose(Tail(fs), FilterValue(Head(fs), d))

\* C2: the filters are called left to right, each once, with the document the filters
\* before it produced and that document's own unMeta; a filter returning None ends the
\* pipeline with None, no later filter being called; otherwise all are called and the
\* result is their composition
C2_Pipeline ==
    pc \in {"go", "filter_hidden", "returned", "KeyError"}
        => /\ Len(calls) <= Len(filters)
           /\ \A i \in 1..Len(calls) :
                 /\ calls[i].f = filters[i]
                 /\ calls[i].doc # None
                 /\ calls[i].doc = Compose(SubSeq(filters, 1, i - 1), doc_ast)
                 /\ calls[i].meta = calls[i].doc.c[1].c[1]
           /\ pc = "returned"
                 => /\ doc = Compose(filters, doc_ast)
                    /\ doc # None => Len(calls) = Len(filters)
                    /\ doc = None
                          => /\ calls # <<>>
                             /\ FilterValue(calls[Len(calls)].f, calls[Len(calls)].doc) = None

C2_Witness ==
    /\ pc = "returned" /\ doc = None
    /\ Len(filters) = 3 /\ Len(calls) = 2
    /\ calls[2].doc # doc_ast
    /\ calls[2].meta # PyDict(<<>>, <<>>)

Titles ==
    <<PyStr("Angola"), PyStr("Benguela"), PyStr("Ladainha"), PyStr("Regional"),
      PyStr("Sao Bento")>>

\* the display titles of h's recognised classes, ascending
BadgeTitles(h) ==
    LET cls == Get(h, "c").c[2].c[2].c
        Has(title) == \E i \in 1..Len(cls) : CLASSES_get(cls[i]) = title
    IN  SelectSeq(Titles, Has)

TexNode(text) == MkElt("RawInline", PyTuple(<<PyStr("tex"), text>>))

LatexNode(text) == MkElt("RawBlock", PyTuple(<<PyStr("latex"), text>>))

BeginSamePage == LatexNode(PyText(<<"\\begin{", "samepage", "}">>))

EndSamePage == LatexNode(PyText(<<"\\end{", "samepage", "}">>))

\* the Header of the output for the input Header h
BadgedHeader(h) ==
    IF BadgeTitles(h) = <<>> THEN h
    ELSE MkElt("Header",
               PyTuple(<<Get(h, "c").c[1], Get(h, "c").c[2],
                         PyList(Get(h, "c").c[3].c \o
                                <<TexNode(PyText(<<"\\newline\\tiny\\color{black!55}">>
                                                 \o Join(BadgeTitles(h))))>>)>>))

\* the footer Para of the output for the input Header h
FooterOf(h) ==
    MkElt("Para", PyTuple(<<TexNode(PyStr("\\rfoot{{\\footnotesize "))>>
                          \o Get(h, "c").c[3].c
                          \o <<TexNode(PyStr("}}"))>>))

\* the lists of nodes of v: every list, at any depth, with a tagged member
RECURSIVE ListsOf(_)
ListsOf(v) ==
    (IF v.t = "list" /\ (\E i \in 1..Len(v.c) : IsNode(v.c[i])) THEN {v.c} ELSE {})
    \cup UNION {ListsOf(v.c[i]) : i \in 1..Len(v.c)}

\* a Para as pandoc decodes it: its content is a list
IsInputPara(v) == IsKind(v, "Para") /\ Get(v, "c").t = "list"

IsFullPara(v) == IsInputPara(v) /\ Get(v, "c").c # <<>>

\* C10: doc_filter turns every top-level Header h of a document it does not drop into
\* the column block, the Header (with the badge of its recognised classes, if any)
\* and the footer Para (without the badge), consecutive and outside any samepage
\* pair; every Para of the input that is not empty stands between a begin and an end
\* samepage block, and no empty Para is left
C10_DocFilter ==
    (pc = "returned" /\ filters = doc_filter /\ doc # None)
        => LET body == doc_ast.c[2].c
               res  == doc.c[2].c
           IN  /\ \A j \in 1..Len(body) :
                     IsHeaderNode(body[j])
                        => \E i \in 1..(Len(res) - 2) :
                              /\ res[i] = ColumnBlock(body[j])
                              /\ res[i + 1] = BadgedHeader(body[j])
                              /\ res[i + 2] = FooterOf(body[j])
                              /\ i > 1 => res[i - 1] # BeginSamePage
                              /\ i + 3 <= Len(res) => res[i + 3] # EndSamePage
               /\ Len(SelectSeq(res, IsHeaderNode)) = Len(SelectSeq(body, IsHeaderNode))
               /\ \A l \in ListsOf(doc.c[2]) : \A i \in 1..Len(l) :
                     IsInputPara(l[i])
                        => /\ Get(l[i], "c").c # <<>>
                           /\ i > 1 /\ l[i - 1] = BeginSamePage
                           /\ i < Len(l) /\ l[i + 1] = EndSamePage
               /\ Len(SelectSeq(NodesOf(doc.c[2]), IsInputPara))
                     = Len(SelectSeq(NodesOf(doc_ast.c[2]), IsFullPara))

C10_Witness ==
    /\ pc = "returned" /\ filters = doc_filter /\ doc # None
    /\ doc_ast.c[2].c = <<HMixed, PText>>
    /\ Len(doc.c[2].c) = 6
    /\ doc.c[2].c[2] # HMixed

-----------------------------------------------------------------------------
(* Properties of process_file and main (Spec)                               *)

HasHiddenHeader(d) ==
    \E i \in 1..Len(NodesOf(d.c[2])) : IsHiddenNode(NodesOf(d.c[2])[i])

\* C1 as stated: a document with a hidden Header anywhere in its body, nested or not,
\* is dropped by doc_filter, and process_file returns no tags and no nodes for it
C1_HiddenAnywhereDropped ==
    /\ (pc = "returned" /\ HasHiddenHeader(doc_ast)) => doc = None
    /\ \A i \in 1..Len(docs) :
          HasHiddenHeader(files[i]) => docs[i] = [tags |-> <<>>, elems |-> <<>>]

\* C6 as stated: once the opening is written the serialization runs to its end, for
\* the empty element sequence too, and what it has written is the opening, the nodes
\* with a separator before each but the first, and the closing
C6_SerializationCompletes ==
    /\ out # <<>> => pc \in {"first", "loop", "close", "done"}
    /\ pc = "done"
          => /\ Len(out) >= 2
             /\ out[1] = Lit("[{\"unMeta\": {}},[\n")
             /\ out[Len(out)] = Lit("\n]]")
             /\ \A k \in 2..(Len(out) - 1) :
                   IF k % 2 = 0 THEN out[k].node # None ELSE out[k] = Lit(",\n")
             /\ Len(out) % 2 = 1 \/ Len(out) = 2

\* the entries of category key, in the order process_file found them
EntriesOf(key) ==
    LET all     == AllTags(docs)
        Is(e)   == e.c[1] = PyStr(key)
        mine    == SelectSeq(all, Is)
    IN  PyList([i \in 1..Len(mine) |-> PyTuple(<<mine[i].c[2], mine[i].c[3]>>)])

RECURSIVE AllBodies(_)
AllBodies(ds) == IF ds = <<>> THEN <<>> ELSE Head(ds).elems \o AllBodies(Tail(ds))

WrittenNodes == [i \in 1..(Len(out) \div 2) |-> out[2 * i].node]

\* C8 as stated: whatever the documents, main merges one TOC fragment per category, in
\* ascending order of title, each with the entries found for it (none, possibly), and
\* then the bodies of the documents in processing order
C8_MergedSequence ==
    /\ tags # None => pc # "KeyError"
    /\ pc = "done"
          => WrittenNodes = gen_toc(PyStr("Angola"), EntriesOf("angola"))
                            \o gen_toc(PyStr("Benguela"), EntriesOf("benguela"))
                            \o gen_toc(PyStr("Ladainha"), EntriesOf("ladainha"))
                            \o gen_toc(PyStr("Regional"), EntriesOf("regional"))
                            \o gen_toc(PyStr("Sao Bento"), EntriesOf("saobento"))
                            \o AllBodies(docs)


====
